---------------------------- MODULE Spec2Model ----------------------------
(***************************************************************************)
(* Model of src/app.py: the Flask application that quotes a delivery       *)
(* (POST /calculate-delivery), sends a WhatsApp template message           *)
(* (POST /send-whatsapp) and an order-confirmation e-mail                  *)
(* (POST /send-order-confirmation).                                        *)
(*                                                                         *)
(* Numbers.  The program computes with Python floats.  The model computes  *)
(* with exact rationals <<numerator, denominator>>; a distance is a whole  *)
(* number of metres, i.e. the rational <<m, Scale>> kilometres.  Float     *)
(* round-off (a few ulp) is not modelled.                                  *)
(*                                                                         *)
(* Exceptions.  Every evaluation that may raise returns a record           *)
(* [exc, val]: exc = "none" and the value, or the name of the exception    *)
(* class raised and a placeholder value.                                   *)
(***************************************************************************)
EXTENDS Integers, Sequences, FiniteSets, TLC

\* ------------------------------------------------------------------ bounds
\* Largest geodesic distance drawn in the quote specification, in metres.
MaxDist == 4500
\* Largest difference between the two distances of a pair, in metres.
MaxGap == 2
\* The handler specification draws each branch's geodesic distance from
\* {0, DistStep, ..., MaxDistSteps * DistStep} metres.
MaxDistSteps == 2

\* Metres per kilometre: the denominator of a distance.
Scale == 10 * 100
\* Spacing of the distances the handler specification draws, in metres.
DistStep == 19 * 100
DistSamples == {k * DistStep : k \in 0..MaxDistSteps}

\* ------------------------------------------------------- module constants
COST_PER_KM == 50
AVERAGE_SPEED_KMPH == 25
MIN_COOKING_TIME_MINS == 30
MIN_DELIVERY_CHARGE_PKR == 100

\* The names bound in the module's global namespace by lines 47-50.
ModuleGlobals ==
    [COST_PER_KM |-> COST_PER_KM,
     AVERAGE_SPEED_KMPH |-> AVERAGE_SPEED_KMPH,
     MIN_COOKING_TIME_MINS |-> MIN_COOKING_TIME_MINS,
     MIN_DELIVERY_CHARGE_PKR |-> MIN_DELIVERY_CHARGE_PKR]

\* The name line 97 reads for the cooking time (as spelled there).
CookingTimeName == "MIN_COOKING_TIME_MINs"

\* The branch registry, in the dict's insertion (= iteration) order.
BRANCH_LOCATIONS == <<"Foods Spot FB Area", "Foods Spot New Karachi Branch">>

\* The environment variables the start-up check requires.
required_vars ==
    {"WHATSAPP_BUSINESS_ID", "WHATSAPP_ACCESS_TOKEN", "WHATSAPP_PHONE_NUMBER_ID",
     "EMAIL_SENDER", "EMAIL_PASSWORD", "EMAIL_RECEIVER"}

\* ------------------------------------------------------ exact arithmetic
Ok(v) == [exc |-> "none", val |-> v]
Raise(e, placeholder) == [exc |-> e, val |-> placeholder]

RInt(i) == <<i, 1>>
RAdd(x, y) == <<x[1] * y[2] + y[1] * x[2], x[2] * y[2]>>
RMul(x, y) == <<x[1] * y[1], x[2] * y[2]>>
RDiv(x, y) == <<x[1] * y[2], x[2] * y[1]>>
RLess(x, y) == x[1] * y[2] < y[1] * x[2]
RLeq(x, y) == x[1] * y[2] <= y[1] * x[2]
REq(x, y) == x[1] * y[2] = y[1] * x[2]
\* Python's max(a, b): b only when b > a.
RMax(x, y) == IF RLess(x, y) THEN y ELSE x
\* math.ceil of a non-negative rational.
RCeil(x) == (x[1] + x[2] - 1) \div x[2]

\* A distance of m metres, in kilometres (geodesic(...).km).
Km(m) == <<m, Scale>>

\* round(distance_km, 2): to the nearest 1/100 km, halves to even (for a
\* float a tie is decided by its binary value; exact ties are not
\* modelled apart).  The result is the number of hundredths.
Round2(x) ==
    LET n100 == x[1] * 100
        q == n100 \div x[2]
        r2 == 2 * (n100 % x[2])
    IN  IF r2 < x[2] THEN q
        ELSE IF r2 > x[2] THEN q + 1
        ELSE IF q % 2 = 0 THEN q ELSE q + 1

\* str(v): the text of a value, kept apart from the value itself.
Str(v) == <<"str", v>>

\* --------------------------------------------------------- quote arithmetic
round_up_to_nearest_five(x) == RCeil(RDiv(x, RInt(5))) * 5

round_up_to_nearest_ten(x) == RCeil(RDiv(x, RInt(10))) * 10

\* Line 96.
estimated_time_travel(distance_km) ==
    RMul(RDiv(distance_km, RInt(AVERAGE_SPEED_KMPH)), RInt(60))

\* Line 97: the cooking time is read from the module's globals by name.
estimated_time_total(distance_km) ==
    IF CookingTimeName \in DOMAIN ModuleGlobals
    THEN Ok(RAdd(estimated_time_travel(distance_km),
                 RInt(ModuleGlobals[CookingTimeName])))
    ELSE Raise("NameError", RInt(0))

\* Lines 96-98.
estimated_time_rounded(distance_km) ==
    LET total == estimated_time_total(distance_km)
    IN  IF total.exc = "none"
        THEN Ok(round_up_to_nearest_five(total.val))
        ELSE Raise(total.exc, 0)

\* Line 101.
total_amount_raw(distance_km) == RMul(distance_km, RInt(COST_PER_KM))

\* total_amount_with_min without the minimum charge.
total_amount_without_min(distance_km) == total_amount_raw(distance_km)

\* Line 102.
total_amount_with_min(distance_km) ==
    RMax(total_amount_raw(distance_km), RInt(MIN_DELIVERY_CHARGE_PKR))

\* Lines 101-103.
total_amount_rounded(distance_km) ==
    round_up_to_nearest_ten(total_amount_with_min(distance_km))

\* ------------------------------------------------------------ requests
\* What request.get_json() / request.json meets in the body:
\*   "unparseable"  no JSON can be read from it (get_json raises BadRequest);
\*   "null"         the JSON value null (data is None);
\*   "scalar"       a non-zero JSON number or true (truthy, not a container);
\*   "object"       a JSON object; lat and lon say what it holds under
\*                  customer_latitude and customer_longitude.
\* A field is "absent", a JSON "number", a string float() parses
\* ("numstr"), a string it does not parse ("badstr"), or JSON "null".
FieldKinds == {"absent", "number", "numstr", "badstr", "null"}

Bodies ==
    {[kind |-> k, lat |-> "absent", lon |-> "absent"] :
        k \in {"unparseable", "null", "scalar"}}
    \cup {[kind |-> "object", lat |-> a, lon |-> o] : a, o \in FieldKinds}

\* request.get_json(): the parsed body, or BadRequest.
get_json(body) ==
    IF body.kind = "unparseable" THEN Raise("BadRequest", body) ELSE Ok(body)

\* Python truthiness of the parsed body: None and {} are falsy.
Truthy(data) ==
    /\ data.kind # "null"
    /\ ~(data.kind = "object" /\ data.lat = "absent" /\ data.lon = "absent")

\* 'key' in data: a membership test needs a container.
HasKey(data, field) ==
    IF data.kind = "object" THEN Ok(field # "absent")
    ELSE Raise("TypeError", FALSE)

\* float(v) for a field's value.
Float(field) ==
    CASE field \in {"number", "numstr"} -> Ok(TRUE)
      [] field = "badstr" -> Raise("ValueError", FALSE)
      [] field = "absent" -> Raise("KeyError", FALSE)
      [] OTHER -> Raise("TypeError", FALSE)

\* ------------------------------------------------------------ responses
Keys200 ==
    {"nearest_branch_name", "nearest_branch_total_kilometers",
     "nearest_branch_estimated_timing_minutes", "nearest_branch_total_amount_pkr"}

NoFields == <<>>

\* A response: the HTTP status, what the body is, the body's top-level
\* keys, its values (for a quote), and the exception that left the
\* handler ("none" when the handler returned).
Response(status, kind, keys, fields) ==
    [status |-> status, kind |-> kind, keys |-> keys, fields |-> fields,
     escaped |-> "none"]

\* An exception leaves the handler: Flask answers for it (an HTTPException
\* with its own status, anything else with 500 Internal Server Error).
Escapes(e) ==
    [status |-> IF e = "BadRequest" THEN 400 ELSE 500,
     kind |-> "flask_error_page", keys |-> {}, fields |-> NoFields,
     escaped |-> e]

NoResponse == Response(0, "none", {}, NoFields)

InvalidInput400 == Response(400, "invalid_input_message", {"error"}, NoFields)

GenericError500 ==
    Response(500, "generic_error_message", {"version", "content"}, NoFields)

\* ------------------------------------------------- calculate_delivery
\* None and float('inf').
None == <<>>
Inf == [inf |-> TRUE, val |-> RInt(0)]
Finite(x) == [inf |-> FALSE, val |-> x]
\* distance_km < min_distance.
LessThanMin(x, m) == m.inf \/ RLess(x, m.val)

\* The handler's locals: results, nearest_branch_info (None, or <<info>>),
\* min_distance, the number of loop iterations begun, and the exception
\* raised so far.
Locals0 ==
    [results |-> <<>>, nearest_branch_info |-> None, min_distance |-> Inf,
     iterations |-> 0, exc |-> "none"]

\* Lines 93-116: one iteration, for the branch at position i, whose
\* geodesic distance from the customer is metres[i].
BranchIteration(i, metres, st) ==
    LET distance_km == Km(metres[i])
        time == estimated_time_rounded(distance_km)
        branch_info ==
            [branch_name |-> BRANCH_LOCATIONS[i],
             total_kilometers |-> Round2(distance_km),
             estimated_timing_minutes |-> time.val,
             total_amount_pkr |-> total_amount_rounded(distance_km)]
        nearer == LessThanMin(distance_km, st.min_distance)
    IN  IF time.exc # "none"
        THEN [st EXCEPT !.iterations = @ + 1, !.exc = time.exc]
        ELSE [st EXCEPT
                !.iterations = @ + 1,
                !.results = Append(@, branch_info),
                !.min_distance = IF nearer THEN Finite(distance_km) ELSE @,
                !.nearest_branch_info = IF nearer THEN <<branch_info>> ELSE @]

\* Lines 92-116: the loop over BRANCH_LOCATIONS.items(), from position i.
RECURSIVE BranchLoop(_, _, _)
BranchLoop(i, metres, st) ==
    IF i > Len(BRANCH_LOCATIONS) \/ st.exc # "none" THEN st
    ELSE BranchLoop(i + 1, metres, BranchIteration(i, metres, st))

\* Lines 119-127: the response built from nearest_branch_info.
response_content(st) ==
    IF st.nearest_branch_info = None
    THEN Raise("TypeError", NoResponse)
    ELSE LET n == st.nearest_branch_info[1]
         IN  Ok(Response(200, "quote", Keys200,
                  [nearest_branch_name |-> n.branch_name,
                   nearest_branch_total_kilometers |-> Str(n.total_kilometers),
                   nearest_branch_estimated_timing_minutes |->
                       Str(n.estimated_timing_minutes),
                   nearest_branch_total_amount_pkr |-> Str(n.total_amount_pkr)]))

\* CaughtByCalculateDelivery as `except (ValueError, TypeError)`.
CaughtOnlyValueErrors(e) == e \in {"ValueError", "TypeError"}

\* The classes `except Exception` (line 129) catches, among those the
\* body of the try can raise.
CaughtByCalculateDelivery(e) ==
    e \in {"BadRequest", "TypeError", "ValueError", "KeyError", "NameError"}

\* Lines 129-141.
CalcExcept(e, st) ==
    [resp |-> IF CaughtByCalculateDelivery(e) THEN GenericError500
              ELSE Escapes(e),
     locals |-> [st EXCEPT !.exc = e]]

\* Lines 75-141: the whole handler.  metres[i] is what geodesic gives
\* for branch i.  The result is the response and the locals at exit.
calculate_delivery(body, metres) ==
    LET parsed == get_json(body)
        data == parsed.val
        hasLat == HasKey(data, data.lat)
        hasLon == HasKey(data, data.lon)
        lat == Float(data.lat)
        lon == Float(data.lon)
        looped == BranchLoop(1, metres, Locals0)
        content == response_content(looped)
    IN  IF parsed.exc # "none" THEN CalcExcept(parsed.exc, Locals0)
        ELSE IF ~Truthy(data)
             THEN [resp |-> InvalidInput400, locals |-> Locals0]
        ELSE IF hasLat.exc # "none" THEN CalcExcept(hasLat.exc, Locals0)
        ELSE IF ~hasLat.val
             THEN [resp |-> InvalidInput400, locals |-> Locals0]
        ELSE IF ~hasLon.val
             THEN [resp |-> InvalidInput400, locals |-> Locals0]
        ELSE IF lat.exc # "none" THEN CalcExcept(lat.exc, Locals0)
        ELSE IF lon.exc # "none" THEN CalcExcept(lon.exc, Locals0)
        ELSE IF looped.exc # "none" THEN CalcExcept(looped.exc, looped)
        ELSE IF content.exc # "none" THEN CalcExcept(content.exc, looped)
        ELSE [resp |-> content.val, locals |-> looped]

\* ------------------------------------------------------- collaborators
\* What the WhatsApp API call meets, and the exception it raises there:
\* requests.post fails to connect or times out, raise_for_status meets a
\* 4xx/5xx reply, response.json() meets a 2xx reply that is not JSON
\* (requests.exceptions.JSONDecodeError, requests >= 2.27).
WhatsAppOutcomes ==
    {"sent", "connection_error", "timeout", "http_error", "reply_not_json"}

WhatsAppRaises(outcome) ==
    CASE outcome = "connection_error" -> "ConnectionError"
      [] outcome = "timeout" -> "Timeout"
      [] outcome = "http_error" -> "HTTPError"
      [] outcome = "reply_not_json" -> "JSONDecodeError"
      [] OTHER -> "none"

\* CaughtBySendWhatsApp as `except requests.exceptions.HTTPError`.
CaughtOnlyHTTPError(e) == e = "HTTPError"

\* The classes `except requests.exceptions.RequestException` (line 205)
\* catches: RequestException and its subclasses.
CaughtBySendWhatsApp(e) ==
    e \in {"RequestException", "ConnectionError", "Timeout", "HTTPError",
           "JSONDecodeError"}

\* Lines 175-207: True, False, or the exception that leaves the function.
send_whatsapp_message(outcome) ==
    LET e == WhatsAppRaises(outcome)
    IN  IF e = "none" THEN Ok(TRUE)
        ELSE IF CaughtBySendWhatsApp(e) THEN Ok(FALSE)
        ELSE Raise(e, FALSE)

\* What the SMTP conversation meets, and the exception raised there:
\* smtplib.SMTP(...) cannot connect, starttls / login / sendmail is
\* refused, or the server drops the connection at quit.
SmtpOutcomes ==
    {"sent", "connect_failed", "starttls_failed", "login_failed",
     "sendmail_failed", "quit_failed"}

SmtpRaises(outcome) ==
    CASE outcome = "connect_failed" -> "OSError"
      [] outcome = "starttls_failed" -> "SMTPNotSupportedError"
      [] outcome = "login_failed" -> "SMTPAuthenticationError"
      [] outcome = "sendmail_failed" -> "SMTPRecipientsRefused"
      [] outcome = "quit_failed" -> "SMTPServerDisconnected"
      [] OTHER -> "none"

\* The classes `except Exception` (line 170) catches, among those the
\* body of the try can raise.
CaughtBySendEmail(e) ==
    e \in {"OSError", "SMTPNotSupportedError", "SMTPAuthenticationError",
           "SMTPRecipientsRefused", "SMTPServerDisconnected"}

\* Lines 143-173.
send_email_notification(outcome) ==
    LET e == SmtpRaises(outcome)
    IN  IF e = "none" THEN Ok(TRUE)
        ELSE IF CaughtBySendEmail(e) THEN Ok(FALSE)
        ELSE Raise(e, FALSE)

\* data.get(...): data must be a dict.
DataGet(data) ==
    IF data.kind = "object" THEN Ok(TRUE) ELSE Raise("AttributeError", FALSE)

StatusBody(status, text) == Response(status, text, {"status", "message"}, NoFields)

\* Lines 219-222 and 261-264: the answer for the helper's result.
AnswerFor(success, what) ==
    IF success THEN StatusBody(200, what \o "_success")
    ELSE StatusBody(500, what \o "_error")

\* What a handler that calls a collaborator leaves: the response, whether
\* the collaborator was called, and the helper's return value
\* ("True", "False", or "none" when it did not return).
Sent(resp, called, returned) ==
    [resp |-> resp, called |-> called, returned |-> returned]

\* Lines 209-222.
handle_whatsapp_request(body, outcome) ==
    LET parsed == get_json(body)
        got == DataGet(parsed.val)
        success == send_whatsapp_message(outcome)
    IN  IF parsed.exc # "none" THEN Sent(Escapes(parsed.exc), FALSE, "none")
        ELSE IF got.exc # "none" THEN Sent(Escapes(got.exc), FALSE, "none")
        ELSE IF success.exc # "none"
             THEN Sent(Escapes(success.exc), TRUE, "none")
        ELSE Sent(AnswerFor(success.val, "whatsapp"), TRUE,
                  IF success.val THEN "True" ELSE "False")

\* Lines 224-264.
handle_order_confirmation_request(body, outcome) ==
    LET parsed == get_json(body)
        got == DataGet(parsed.val)
        success == send_email_notification(outcome)
    IN  IF parsed.exc # "none" THEN Sent(Escapes(parsed.exc), FALSE, "none")
        ELSE IF got.exc # "none" THEN Sent(Escapes(got.exc), FALSE, "none")
        ELSE IF success.exc # "none"
             THEN Sent(Escapes(success.exc), TRUE, "none")
        ELSE Sent(AnswerFor(success.val, "email"), TRUE,
                  IF success.val THEN "True" ELSE "False")

\* Lines 60-62.
home == Response(200, "The API is running!", {}, NoFields)

\* ---------------------------------------------------------------- start
\* Lines 266-277.  Run as a script (__name__ == '__main__') the module
\* checks the required variables and then serves; imported by a WSGI
\* server (line 276) the block is skipped and the server serves app.
LaunchModes == {"script", "wsgi"}

StartsServing(mode, environ) ==
    IF mode = "script" THEN required_vars \subseteq environ ELSE TRUE

\* ---------------------------------------------------------------- state
VARIABLES
    phase,      \* "boot", "serving", or "refused" (RuntimeError at start)
    launch,     \* how the module was loaded ("none" before it is)
    environ,    \* the required variables that are set
    route,      \* the route of the last request ("none" before any)
    request,    \* its body
    outcome,    \* what its collaborator call met ("none": calculate, home)
    resp,       \* its response
    locals,     \* calculate_delivery's locals at exit
    metres,     \* what geodesic gave it for each branch, in metres
    called,     \* whether it called an external service
    returned,   \* what the send_* helper returned
    qpc,        \* quote arithmetic: the set of quantities evaluated
    qd1, qd2,   \* quote arithmetic: two distances in metres, qd1 <= qd2
    qtime1, qtime2, qcost1, qcost2

vars == <<phase, launch, environ, route, request, outcome, resp, locals,
          metres, called, returned, qpc, qd1, qd2, qtime1, qtime2, qcost1, qcost2>>

svars == <<phase, launch, environ, route, request, outcome, resp, locals,
           metres, called, returned>>
qvars == <<qpc, qd1, qd2, qtime1, qtime2, qcost1, qcost2>>

DistanceTables == [1..Len(BRANCH_LOCATIONS) -> DistSamples]
NearTable == [i \in 1..Len(BRANCH_LOCATIONS) |-> 0]

NoBody == [kind |-> "none", lat |-> "absent", lon |-> "absent"]
NoTime == Raise("unevaluated", 0)

QuoteIdle ==
    /\ qpc = {} /\ qd1 = 0 /\ qd2 = 0
    /\ qtime1 = NoTime /\ qtime2 = NoTime /\ qcost1 = 0 /\ qcost2 = 0

ServerIdle ==
    /\ phase = "boot" /\ launch = "none"
    /\ route = "none" /\ request = NoBody /\ outcome = "none"
    /\ resp = NoResponse /\ locals = Locals0 /\ metres = NearTable
    /\ called = FALSE /\ returned = "none"

\* ------------------------------------------------------- the application
Init ==
    /\ ServerIdle
    /\ environ \in SUBSET required_vars
    /\ QuoteIdle

Start ==
    /\ phase = "boot"
    /\ \E mode \in LaunchModes :
          /\ launch' = mode
          /\ phase' = IF StartsServing(mode, environ) THEN "serving"
                       ELSE "refused"
    /\ UNCHANGED <<environ, route, request, outcome, resp, locals, metres,
                   called, returned>>
    /\ UNCHANGED qvars

\* The bodies the two send handlers tell apart: they read no field of the
\* object they are sent, so one object stands for all.
MessageBodies == {b \in Bodies : b.lat = "absent" /\ b.lon = "absent"}

\* A request to /calculate-delivery.  The distance table is drawn only
\* for a request that reaches the loop: geodesic is not called otherwise.
PostCalculateDelivery ==
    /\ phase = "serving"
    /\ \E body \in Bodies, table \in DistanceTables :
          LET r == calculate_delivery(body, table)
          IN  /\ r.locals.iterations > 0 \/ table = NearTable
              /\ metres' = table
              /\ route' = "/calculate-delivery"
              /\ request' = body
              /\ outcome' = "none"
              /\ resp' = r.resp
              /\ locals' = r.locals
              /\ called' = FALSE
              /\ returned' = "none"
    /\ UNCHANGED <<phase, launch, environ>>
    /\ UNCHANGED qvars

PostSendWhatsapp ==
    /\ phase = "serving"
    /\ \E body \in MessageBodies, met \in WhatsAppOutcomes :
          LET r == handle_whatsapp_request(body, met)
          IN  /\ route' = "/send-whatsapp"
              /\ request' = body
              /\ outcome' = IF r.called THEN met ELSE "none"
              /\ resp' = r.resp
              /\ locals' = Locals0
              /\ metres' = NearTable
              /\ called' = r.called
              /\ returned' = r.returned
    /\ UNCHANGED <<phase, launch, environ>>
    /\ UNCHANGED qvars

PostSendOrderConfirmation ==
    /\ phase = "serving"
    /\ \E body \in MessageBodies, met \in SmtpOutcomes :
          LET r == handle_order_confirmation_request(body, met)
          IN  /\ route' = "/send-order-confirmation"
              /\ request' = body
              /\ outcome' = IF r.called THEN met ELSE "none"
              /\ resp' = r.resp
              /\ locals' = Locals0
              /\ metres' = NearTable
              /\ called' = r.called
              /\ returned' = r.returned
    /\ UNCHANGED <<phase, launch, environ>>
    /\ UNCHANGED qvars

GetHome ==
    /\ phase = "serving"
    /\ route' = "/"
    /\ request' = NoBody
    /\ outcome' = "none"
    /\ resp' = home
    /\ locals' = Locals0
    /\ metres' = NearTable
    /\ called' = FALSE
    /\ returned' = "none"
    /\ UNCHANGED <<phase, launch, environ>>
    /\ UNCHANGED qvars

Next ==
    \/ Start
    \/ PostCalculateDelivery
    \/ PostSendWhatsapp
    \/ PostSendOrderConfirmation
    \/ GetHome

Spec == Init /\ [][Next]_vars

\* ------------------------------------------------- the quote arithmetic
\* The arithmetic of one loop iteration, applied to two distances
\* qd1 <= qd2: the time of lines 96-98 and the cost of lines 101-103.
QuoteInit ==
    /\ ServerIdle
    /\ environ = required_vars
    /\ qpc = {}
    /\ qd1 \in 0..MaxDist
    /\ qd2 \in qd1..(qd1 + MaxGap)
    /\ qtime1 = NoTime /\ qtime2 = NoTime /\ qcost1 = 0 /\ qcost2 = 0

QuoteTime ==
    /\ "time" \notin qpc
    /\ qpc' = qpc \cup {"time"}
    /\ qtime1' = estimated_time_rounded(Km(qd1))
    /\ qtime2' = estimated_time_rounded(Km(qd2))
    /\ UNCHANGED <<qd1, qd2, qcost1, qcost2>>
    /\ UNCHANGED svars

QuoteCost ==
    /\ "cost" \notin qpc
    /\ qpc' = qpc \cup {"cost"}
    /\ qcost1' = total_amount_rounded(Km(qd1))
    /\ qcost2' = total_amount_rounded(Km(qd2))
    /\ UNCHANGED <<qd1, qd2, qtime1, qtime2>>
    /\ UNCHANGED svars

QuoteNext == QuoteTime \/ QuoteCost

QuoteSpec == QuoteInit /\ [][QuoteNext]_vars

\* ================================================================ claims
\* The last request was to /calculate-delivery.
IsCalc == route = "/calculate-delivery"
\* ... and was served by a process with every required variable set.
ConfiguredCalc == IsCalc /\ required_vars \subseteq environ
Numeric == {"number", "numstr"}
NotNumeric == {"badstr", "null"}

\* The position of the branch the claim designates: minimum raw distance,
\* the first listed among equals.
FirstNearest(table) ==
    CHOOSE i \in DOMAIN table :
        /\ \A j \in DOMAIN table : table[i] <= table[j]
        /\ \A j \in DOMAIN table : table[j] = table[i] => i <= j

\* C1: every POST to /calculate-delivery whose body holds both coordinates
\* as numbers is answered 200 with exactly the four nearest_branch_* keys,
\* the last three the strings of the nearest branch's quote.
C1_NumericRequestAnswered200 ==
    (ConfiguredCalc /\ request.kind = "object"
        /\ request.lat = "number" /\ request.lon = "number")
    => /\ resp.status = 200
       /\ resp.escaped = "none"
       /\ resp.keys = Keys200
       /\ locals.nearest_branch_info # None
       /\ LET n == locals.nearest_branch_info[1]
          IN  /\ resp.fields.nearest_branch_name = n.branch_name
              /\ resp.fields.nearest_branch_total_kilometers
                    = Str(n.total_kilometers)
              /\ resp.fields.nearest_branch_estimated_timing_minutes
                    = Str(n.estimated_timing_minutes)
              /\ resp.fields.nearest_branch_total_amount_pkr
                    = Str(n.total_amount_pkr)

\* C2: a request in which both coordinates are present and one of them is
\* not parseable as a number is answered 400 with the invalid-input
\* message, without entering the per-branch loop, and never 500.
C2_NonNumericRejected400 ==
    (ConfiguredCalc /\ request.kind = "object"
        /\ request.lat # "absent" /\ request.lon # "absent"
        /\ (request.lat \in NotNumeric \/ request.lon \in NotNumeric))
    => /\ resp = InvalidInput400
       /\ locals.iterations = 0

\* C3: a request whose body is empty (nothing to parse, null, {}), is no
\* object holding the fields, or is an object lacking customer_latitude or
\* customer_longitude is answered 400 with the invalid-input message; no
\* quote is computed, the loop is not entered, no external service called.
C3_MissingFieldsRejected400 ==
    (ConfiguredCalc /\ (request.kind # "object" \/ request.lat = "absent"
                   \/ request.lon = "absent"))
    => /\ resp = InvalidInput400
       /\ locals.iterations = 0
       /\ locals.results = <<>>
       /\ ~called

\* C4: for a request with numeric coordinates, results holds one quote per
\* branch in registry order and nearest_branch_info is the quote of the
\* branch of minimum raw distance, the first listed among equals.
C4_OneQuotePerBranchAndNearest ==
    (ConfiguredCalc /\ request.kind = "object"
        /\ request.lat \in Numeric /\ request.lon \in Numeric)
    => /\ Len(locals.results) = Len(BRANCH_LOCATIONS)
       /\ \A i \in 1..Len(BRANCH_LOCATIONS) :
             /\ locals.results[i].branch_name = BRANCH_LOCATIONS[i]
             /\ locals.results[i].total_kilometers = Round2(Km(metres[i]))
       /\ locals.nearest_branch_info
             = <<locals.results[FirstNearest(metres)]>>
       /\ locals.min_distance = Finite(Km(metres[FirstNearest(metres)]))

\* The raw cost of d metres, distance_km x COST_PER_KM, as a rational.
RawCost(d) == <<d * COST_PER_KM, Scale>>

\* What C5 says of the cost c returned for d metres.
CostAsClaimed(d, c) ==
    /\ c % 10 = 0
    /\ RLess(RawCost(d), RInt(MIN_DELIVERY_CHARGE_PKR))
         => /\ c >= MIN_DELIVERY_CHARGE_PKR
            /\ c < MIN_DELIVERY_CHARGE_PKR + 10
            /\ c = 100
    /\ ~RLess(RawCost(d), RInt(MIN_DELIVERY_CHARGE_PKR))
         => /\ RLeq(RawCost(d), RInt(c))
            /\ RLess(RInt(c), RAdd(RawCost(d), RInt(10)))
    /\ d = 0 => c = 100
    /\ REq(RawCost(d), RInt(95)) => c = 100
    /\ REq(RawCost(d), RInt(105)) => c = 110
    /\ REq(RawCost(d), RInt(200)) => c = 200

TotalMinutes(d) ==
    <<d * 60 + MIN_COOKING_TIME_MINS * Scale * AVERAGE_SPEED_KMPH,
      Scale * AVERAGE_SPEED_KMPH>>

\* What C6 says of the time t evaluated for d metres.
TimeAsClaimed(d, t) ==
    /\ t.exc = "none"
    /\ t.val % 5 = 0
    /\ RLeq(TotalMinutes(d), RInt(t.val))
    /\ RLess(RInt(t.val), RAdd(TotalMinutes(d), RInt(5)))
    /\ d = 0 => t.val = 30
    /\ d = 4 * Scale => t.val = 40

\* C6: the estimated time is travel time plus cooking time rounded up to
\* a multiple of 5: a multiple of 5 that is >= the unrounded total and
\* < the total + 5; 30 at distance 0 and 40 at 4 km.
C6_TimeRoundedUpToFive ==
    "time" \in qpc => TimeAsClaimed(qd1, qtime1) /\ TimeAsClaimed(qd2, qtime2)

\* C7: for distances d1 <= d2 the rounded time for d2 is >= the rounded
\* time for d1, and the rounded cost for d2 is >= the rounded cost for d1.
C7_QuoteMonotone ==
    (qpc = {"time", "cost"} /\ qd1 <= qd2)
    => /\ qtime1.exc = "none" /\ qtime2.exc = "none"
       /\ qtime2.val >= qtime1.val
       /\ qcost2 >= qcost1

IsSend == route \in {"/send-whatsapp", "/send-order-confirmation"}

\* C8: on /send-whatsapp and /send-order-confirmation, when the
\* collaborator call fails the helper returns False and the handler
\* answers 500 with status 'error'; no exception leaves the handler once
\* the collaborator has been called; 200 is answered only when the call
\* succeeded.
C8_CollaboratorFailureAnswered500 ==
    IsSend
    => /\ (called /\ outcome # "sent")
            => /\ returned = "False"
               /\ resp.status = 500
               /\ resp.kind \in {"whatsapp_error", "email_error"}
               /\ resp.keys = {"status", "message"}
       /\ called => resp.escaped = "none"
       /\ resp.status = 200
            => called /\ outcome = "sent" /\ returned = "True"

\* C8's case: the WhatsApp API answered with an error status; the helper
\* returned False and the handler answered 500.
C8_Witness ==
    /\ route = "/send-whatsapp"
    /\ called /\ outcome = "http_error"
    /\ returned = "False"
    /\ resp = StatusBody(500, "whatsapp_error")

\* C9: no request is served by a process whose configuration is
\* incomplete: once a request to any route has been served, every
\* required variable is set and the branch registry is not empty.
C9_NeverServesUnconfigured ==
    route # "none"
    => /\ required_vars \subseteq environ
       /\ Len(BRANCH_LOCATIONS) > 0

\* C10: every request to /calculate-delivery ends in 200, 400 or 500 with
\* no exception leaving the handler; a request in which an exception was
\* raised is answered 500 with the fixed generic message, which holds no
\* field of the request and no exception text.
C10_ExceptionsAnswered500Generic ==
    IsCalc
    => /\ resp.escaped = "none"
       /\ resp.status \in {200, 400, 500}
       /\ locals.exc # "none" => resp = GenericError500
       /\ resp.status = 500 => resp = GenericError500

\* C10's case: a request with numeric coordinates raised NameError in the
\* loop and was answered with the generic 500.
C10_Witness ==
    /\ IsCalc
    /\ request = [kind |-> "object", lat |-> "number", lon |-> "number"]
    /\ locals.exc = "NameError"
    /\ resp = GenericError500

=============================================================================
